---- MODULE Spec2Model ----
(***************************************************************************)
(* A model of server.py of mcp-askllm: the `ask` tool, its sliding-window  *)
(* rate limiter, its input validation, the configuration registry and the  *)
(* translation of failures into "Error: ..." strings.                      *)
(*                                                                         *)
(* Python values are tagged records.  A Python str is a sequence of atoms; *)
(* an atom is one character ("g", "SP", "NL", "x01", ...) or an            *)
(* indivisible chunk of literal text ("Error: ", "ASKLLM_CONFIG", ...).    *)
(* Concatenation is \o, so an f-string is the \o of its pieces.            *)
(***************************************************************************)
EXTENDS Integers, Sequences, FiniteSets, TLC

VARIABLES
    llm_configs,     \* server.py:194  the registry, display name -> LLMConfig
    request_counts,  \* server.py:197  client id -> list of admission timestamps
    now,             \* the value time.time() returns
    last,            \* the last completed ask call: its inputs and what it did
    lastCheck,       \* the last completed direct check_rate_limit call
    heap,            \* the list objects request_counts refers to (concurrent runs)
    ref,             \* client id -> index in heap of the list the dict holds
    th               \* per thread: its position in check_rate_limit and its locals

vars == <<llm_configs, request_counts, now, last, lastCheck, heap, ref, th>>

----------------------------------------------------------------------------
(* Program constants *)

MAX_PROMPT_LENGTH == 100000
RATE_LIMIT_REQUESTS == 10
RATE_LIMIT_WINDOW == 60
CONFIG_ENV_VAR == <<"ASKLLM_CONFIG">>

(* Bounds of the model: the windows the clock runs through in the runs of ask  *)
(* (MaxWindows) and in the runs of the limiter alone (MaxWindowsLimiter), the   *)
(* direct calls made for a second client beside ask, and the threads and calls  *)
(* of a concurrent run.                                                         *)

MaxWindows == 1
MaxWindowsLimiter == 2
MaxOtherRequests == 1
MaxCallsPerThread == 2
NumThreads == 2

----------------------------------------------------------------------------
(* Python values *)

Str(s) == [t |-> "str", s |-> s]
None == [t |-> "NoneType"]
Obj(f) == [t |-> "obj", attrs |-> f]
List(xs) == [t |-> "list", items |-> xs]

IsStr(v) == v.t = "str"
\* Python truth value of None and of a str
Truthy(v) == v.t = "str" /\ v.s # <<>>

\* One atom stands for a run of MAX_PROMPT_LENGTH characters "x".
BigRun == "x*MAX_PROMPT_LENGTH"
AtomLen(a) == IF a = BigRun THEN MAX_PROMPT_LENGTH ELSE 1

RECURSIVE PyLen(_)
PyLen(s) == IF s = <<>> THEN 0 ELSE AtomLen(Head(s)) + PyLen(Tail(s))

\* s contains the non-empty text m
Contains(s, m) ==
    \E i \in 1..Len(s) : i + Len(m) - 1 <= Len(s) /\ SubSeq(s, i, i + Len(m) - 1) = m

----------------------------------------------------------------------------
(* Exceptions: the class hierarchy isinstance and except walk *)

ExcParent ==
    [c \in {"Exception", "OSError", "ConnectionError", "ConnectionRefusedError",
            "TimeoutError", "ValueError", "UnicodeDecodeError", "LookupError",
            "IndexError", "AttributeError", "TypeError", "RuntimeError",
            "LLMError", "LLMConfigurationError", "LLMResponseError"} |->
        CASE c = "Exception" -> "BaseException"
          [] c = "OSError" -> "Exception"
          [] c = "ConnectionError" -> "OSError"
          [] c = "ConnectionRefusedError" -> "ConnectionError"
          [] c = "TimeoutError" -> "OSError"
          [] c = "ValueError" -> "Exception"
          [] c = "UnicodeDecodeError" -> "ValueError"
          [] c = "LookupError" -> "Exception"
          [] c = "IndexError" -> "LookupError"
          [] c = "AttributeError" -> "Exception"
          [] c = "TypeError" -> "Exception"
          [] c = "RuntimeError" -> "Exception"
          [] c = "LLMError" -> "Exception"
          [] c = "LLMConfigurationError" -> "LLMError"
          [] c = "LLMResponseError" -> "LLMError"]

RECURSIVE IsSubclass(_, _)
IsSubclass(c, d) ==
    \/ c = d
    \/ c \in DOMAIN ExcParent /\ IsSubclass(ExcParent[c], d)

Exc(cls, msg) == [cls |-> cls, msg |-> msg]
NoExc == Exc("none", <<>>)
IsInstance(e, cls) == IsSubclass(e.cls, cls)

----------------------------------------------------------------------------
(* Input validation: validate_llm_name, sanitize_prompt *)

\* the characters of [a-zA-Z0-9_-] among the atoms
SafeChars == {"g", "h", "G", "H", "7", "_", "-"}
\* [\x00-\x08\x0B\x0C\x0E-\x1F\x7F] among the atoms
ControlChars == {"x01", "x0B", "x7F"}
\* what str.strip() removes, among the atoms left after the control characters
Whitespace == {"SP", "NL", "TAB"}

AllSafe(s, n) == \A i \in 1..n : s[i] \in SafeChars

\* re.match(r'^[a-zA-Z0-9_-]+$', llm): "$" matches at the end of the string and
\* also just before a newline that ends the string.
validate_llm_name(llm) ==
    LET n == Len(llm) IN
    \/ n >= 1 /\ AllSafe(llm, n)
    \/ n >= 2 /\ llm[n] = "NL" /\ AllSafe(llm, n - 1)

RECURSIVE LStrip(_)
LStrip(s) == IF s # <<>> /\ Head(s) \in Whitespace THEN LStrip(Tail(s)) ELSE s

RECURSIVE RStrip(_)
RStrip(s) ==
    IF s # <<>> /\ s[Len(s)] \in Whitespace THEN RStrip(SubSeq(s, 1, Len(s) - 1)) ELSE s

Strip(s) == RStrip(LStrip(s))

IsNotControl(a) == a \notin ControlChars

sanitize_prompt(prompt) == Strip(SelectSeq(prompt, IsNotControl))

----------------------------------------------------------------------------
(* Error translation: handle_llm_error *)

ErrorPrefix == <<"Error: ">>

\* variant: every failure is reported with its own text
handle_llm_error_Echo(error) == ErrorPrefix \o error.msg

handle_llm_error(error) ==
    IF IsInstance(error, "ConnectionError")
        THEN ErrorPrefix \o <<"Unable to connect to LLM service">>
    ELSE IF IsInstance(error, "TimeoutError")
        THEN ErrorPrefix \o <<"LLM request timed out">>
    ELSE IF IsInstance(error, "ValueError")
        THEN ErrorPrefix \o <<"Invalid request parameters">>
    ELSE IF IsInstance(error, "LLMResponseError")
        THEN ErrorPrefix \o error.msg
    ELSE IF IsInstance(error, "LLMConfigurationError")
        THEN ErrorPrefix \o error.msg
    ELSE ErrorPrefix \o <<"Unexpected error occurred">>

----------------------------------------------------------------------------
(* Configuration: get_secure_api_key, load_llm_configurations *)

UpperAtom(a) == CASE a = "g" -> "G" [] a = "h" -> "H" [] OTHER -> a
LowerAtom(a) == CASE a = "G" -> "g" [] a = "H" -> "h" [] OTHER -> a
Upper(s) == [i \in 1..Len(s) |-> UpperAtom(s[i])]
Lower(s) == [i \in 1..Len(s) |-> LowerAtom(s[i])]

\* os.environ.get(name, default): environ maps names to strs
EnvGet(environ, name, default) ==
    IF name \in DOMAIN environ THEN Str(environ[name]) ELSE default

\* keyring: [available, raises, passwords], passwords: <<service, username>> -> str
get_secure_api_key(environ, keyring, service_name, username) ==
    LET stored ==
            IF keyring.available /\ ~keyring.raises
               /\ <<service_name, username>> \in DOMAIN keyring.passwords
            THEN Str(keyring.passwords[<<service_name, username>>])
            ELSE None
        env_var == <<"ASKLLM_">> \o Upper(username) \o <<"_APIKEY">>
    IN  IF Truthy(stored) THEN stored ELSE EnvGet(environ, env_var, None)

RECURSIVE Split(_)
\* str.split(",")
Split(s) ==
    IF \A i \in 1..Len(s) : s[i] # ","
    THEN <<s>>
    ELSE LET i == CHOOSE k \in 1..Len(s) :
                      s[k] = "," /\ \A j \in 1..(k - 1) : s[j] # ","
         IN  <<SubSeq(s, 1, i - 1)>> \o Split(SubSeq(s, i + 1, Len(s)))

LLMConfig(model, api_key, name) == [model |-> model, api_key |-> api_key, name |-> name]

\* one pass of the for loop of load_llm_configurations over the split item
ConfigureOne(configs, environ, keyring, item) ==
    LET llm_name_upper == Upper(Strip(item))
        model == EnvGet(environ, <<"ASKLLM_">> \o llm_name_upper \o <<"_MODEL">>, None)
        display_name ==
            EnvGet(environ, <<"ASKLLM_">> \o llm_name_upper \o <<"_NAME">>,
                   Str(Lower(llm_name_upper)))
        api_key == get_secure_api_key(environ, keyring, <<"askllm">>, Lower(llm_name_upper))
    IN  IF llm_name_upper = <<>> THEN configs
        ELSE IF Truthy(model) /\ Truthy(api_key)
        THEN [k \in DOMAIN configs \cup {display_name.s} |->
                 IF k = display_name.s
                 THEN LLMConfig(model.s, api_key.s, display_name.s)
                 ELSE configs[k]]
        ELSE configs

RECURSIVE ConfigureAll(_, _, _, _)
ConfigureAll(configs, environ, keyring, items) ==
    IF items = <<>> THEN configs
    ELSE ConfigureAll(ConfigureOne(configs, environ, keyring, Head(items)),
                      environ, keyring, Tail(items))

EmptyDict == [k \in {} |-> None]

load_llm_configurations(environ, keyring) ==
    LET configured_llms_str == EnvGet(environ, CONFIG_ENV_VAR, Str(<<>>)) IN
    IF Truthy(configured_llms_str)
    THEN ConfigureAll(EmptyDict, environ, keyring, Split(configured_llms_str.s))
    ELSE EmptyDict

----------------------------------------------------------------------------
(* Rate limiting: check_rate_limit, run without interruption *)

\* variant: a timestamp exactly one window old still counts
InWindow_Inclusive(current_time, req_time) == current_time - req_time <= RATE_LIMIT_WINDOW

InWindow(current_time, req_time) == current_time - req_time < RATE_LIMIT_WINDOW

\* the list comprehension of check_rate_limit
Unexpired(times, current_time) ==
    SelectSeq(times, LAMBDA req_time : InWindow(current_time, req_time))

UnderLimit(times) == ~(Len(times) >= RATE_LIMIT_REQUESTS)

\* the dict after `if client_id not in request_counts: request_counts[client_id] = []`
WithClient(counts, client_id) ==
    IF client_id \in DOMAIN counts THEN counts
    ELSE [c \in DOMAIN counts \cup {client_id} |->
             IF c = client_id THEN <<>> ELSE counts[c]]

\* variant: the timestamp is appended before the limit is tested
check_rate_limit_RecordsRefused(counts, client_id, current_time) ==
    LET c1 == WithClient(counts, client_id)
        kept == Unexpired(c1[client_id], current_time)
    IN  [ok |-> UnderLimit(kept),
         counts |-> [c1 EXCEPT ![client_id] = Append(kept, current_time)]]

\* what check_rate_limit returns (ok) and the dict it leaves (counts)
check_rate_limit(counts, client_id, current_time) ==
    LET c1 == WithClient(counts, client_id)
        kept == Unexpired(c1[client_id], current_time)
    IN  IF UnderLimit(kept)
        THEN [ok |-> TRUE,
              counts |-> [c1 EXCEPT ![client_id] = Append(kept, current_time)]]
        ELSE [ok |-> FALSE, counts |-> [c1 EXCEPT ![client_id] = kept]]

----------------------------------------------------------------------------
(* The CompletionProvider: litellm.completion, an external collaborator.   *)
(* One call either raises an exception or returns a response value.        *)

Attr1(name, v) == Obj([a \in {name} |-> v])
NoAttrs == Obj([a \in {} |-> None])
Message(content) == Attr1("message", Attr1("content", content))
Response(choices) == Attr1("choices", choices)

\* texts an exception of the provider carries: internal detail
ExcTexts == { <<"upstream 10.0.0.5 rejected key sk-123">> }

ProviderExcKinds ==
    {"ConnectionError", "ConnectionRefusedError", "TimeoutError", "ValueError",
     "UnicodeDecodeError", "IndexError", "AttributeError", "TypeError", "RuntimeError"}

Raises(e) == [kind |-> "raise", exc |-> e, response |-> None]
Returns(r) == [kind |-> "return", exc |-> NoExc, response |-> r]
NoOutcome == [kind |-> "none", exc |-> NoExc, response |-> None]

GoodContents == { Str(<<"hello">>), Str(<<"Error: ", "Rate limit exceeded. Please try again later.">>) }

Responses ==
    { None,                                         \* no response object at all
      NoAttrs,                                      \* choices missing
      Response(None),                               \* choices is None
      Response(List(<<>>)),                         \* choices empty
      Response(List(<<NoAttrs>>)),                  \* entry lacking message
      Response(List(<<Attr1("message", None)>>)),   \* message is None
      Response(List(<<Attr1("message", NoAttrs)>>)),\* message lacking content
      Response(List(<<Message(None)>>)),            \* content is None
      Response(List(<<Message(Str(<<>>))>>)) }      \* content is ""
    \cup { Response(List(<<Message(c)>>)) : c \in GoodContents }

ProviderOutcomes ==
    { Raises(Exc(k, m)) : k \in ProviderExcKinds, m \in ExcTexts }
    \cup { Returns(r) : r \in Responses }

----------------------------------------------------------------------------
(* The ask tool *)

Ok(v) == [ok |-> TRUE, val |-> v, exc |-> NoExc]
Fail(e) == [ok |-> FALSE, val |-> None, exc |-> e]

\* v.name
GetAttr(v, name) ==
    IF v.t = "obj" /\ name \in DOMAIN v.attrs
    THEN Ok(v.attrs[name])
    ELSE Fail(Exc("AttributeError", <<"object has no attribute ", name>>))

\* v[0]
GetItem0(v) ==
    IF v.t = "list"
    THEN IF Len(v.items) > 0 THEN Ok(v.items[1])
         ELSE Fail(Exc("IndexError", <<"list index out of range">>))
    ELSE IF v.t = "str"
    THEN IF Len(v.s) > 0 THEN Ok(Str(<<v.s[1]>>))
         ELSE Fail(Exc("IndexError", <<"string index out of range">>))
    ELSE Fail(Exc("TypeError", <<"object is not subscriptable">>))

\* response.choices[0].message.content
ReadContent(response) ==
    LET r1 == GetAttr(response, "choices") IN
    IF ~r1.ok THEN r1 ELSE
    LET r2 == GetItem0(r1.val) IN
    IF ~r2.ok THEN r2 ELSE
    LET r3 == GetAttr(r2.val, "message") IN
    IF ~r3.ok THEN r3 ELSE GetAttr(r3.val, "content")

\* the clause `except (IndexError, AttributeError)` of the inner try
CaughtAsStructure(e) == IsInstance(e, "IndexError") \/ IsInstance(e, "AttributeError")

\* the inner try of ask ("Safe response handling")
extract_content(response) ==
    LET r == ReadContent(response) IN
    IF r.ok
    THEN IF ~Truthy(r.val)
         THEN Fail(Exc("LLMResponseError", <<"Empty response content">>))
         ELSE Ok(r.val)
    ELSE IF CaughtAsStructure(r.exc)
         THEN Fail(Exc("LLMResponseError", <<"Invalid response structure from LLM">>))
         ELSE Fail(r.exc)

RateLimitMessage == <<"Error: ", "Rate limit exceeded. Please try again later.">>

Ret(v, calls, stages) ==
    [raised |-> FALSE, value |-> v, exc |-> NoExc, calls |-> calls, stages |-> stages]
Raise(e, calls, stages) ==
    [raised |-> TRUE, value |-> None, exc |-> e, calls |-> calls, stages |-> stages]

ConfigMissingText(llm) ==
    <<"LLM '">> \o llm \o <<"' not found in configuration. Check ">> \o CONFIG_ENV_VAR
        \o <<" and specific LLM environment variables.">>

\* variant: the display name is passed as the model
CompletionCall_NameAsModel(llm_config, sanitized_prompt) ==
    [model |-> llm_config.name,
     messages |-> << [content |-> sanitized_prompt, role |-> "user"] >>,
     api_key |-> llm_config.api_key]

CompletionCall(llm_config, sanitized_prompt) ==
    [model |-> llm_config.model,
     messages |-> << [content |-> sanitized_prompt, role |-> "user"] >>,
     api_key |-> llm_config.api_key]

\* the validation of ask, from its first raise to the sanitized prompt
validate_inputs(llm, prompt) ==
    IF ~Truthy(llm) \/ ~IsStr(llm)
    THEN Fail(Exc("ValueError", <<"Invalid LLM parameter provided">>))
    ELSE IF ~validate_llm_name(llm.s)
    THEN Fail(Exc("ValueError", <<"LLM name contains invalid characters">>))
    ELSE IF ~Truthy(prompt) \/ ~IsStr(prompt)
    THEN Fail(Exc("ValueError", <<"Invalid prompt parameter provided">>))
    ELSE IF PyLen(prompt.s) > MAX_PROMPT_LENGTH
    THEN Fail(Exc("ValueError",
                  <<"Prompt too long: ", ToString(PyLen(prompt.s)),
                    " characters (max: ", ToString(MAX_PROMPT_LENGTH), ")">>))
    ELSE IF sanitize_prompt(prompt.s) = <<>>
    THEN Fail(Exc("ValueError", <<"Prompt is empty after sanitization">>))
    ELSE Ok(Str(sanitize_prompt(prompt.s)))

\* the body of the outer try of ask; admitted is what check_rate_limit returned
ask_try(llm, prompt, admitted, configs, outcome) ==
    IF ~admitted
    THEN Ret(Str(RateLimitMessage), <<>>, <<"rate_limit">>)
    ELSE
    LET v == validate_inputs(llm, prompt) IN
    IF ~v.ok
    THEN Raise(v.exc, <<>>, <<"rate_limit", "validate">>)
    ELSE IF llm.s \notin DOMAIN configs
    THEN Raise(Exc("LLMConfigurationError", ConfigMissingText(llm.s)), <<>>,
               <<"rate_limit", "validate", "lookup">>)
    ELSE
    LET call == CompletionCall(configs[llm.s], v.val.s) IN
    IF outcome.kind = "raise"
    THEN Raise(outcome.exc, <<call>>, <<"rate_limit", "validate", "lookup", "completion">>)
    ELSE
    LET x == extract_content(outcome.response)
        stages == <<"rate_limit", "validate", "lookup", "completion", "extract">>
    IN  IF x.ok THEN Ret(x.val, <<call>>, stages) ELSE Raise(x.exc, <<call>>, stages)

\* `except (ValueError, LLMConfigurationError, LLMResponseError)`
CaughtAsKnown(e) ==
    \/ IsInstance(e, "ValueError")
    \/ IsInstance(e, "LLMConfigurationError")
    \/ IsInstance(e, "LLMResponseError")

\* variant: only operating-system errors are caught by the last clause
CaughtOnlyOSError(e) == IsInstance(e, "OSError")

\* `except Exception`
CaughtAsUnexpected(e) == IsInstance(e, "Exception")

ask(llm, prompt, admitted, configs, outcome) ==
    LET r == ask_try(llm, prompt, admitted, configs, outcome) IN
    IF ~r.raised THEN r
    ELSE IF CaughtAsKnown(r.exc)
    THEN Ret(Str(ErrorPrefix \o r.exc.msg), r.calls, r.stages)
    ELSE IF CaughtAsUnexpected(r.exc)
    THEN Ret(Str(handle_llm_error(r.exc)), r.calls, r.stages)
    ELSE r

----------------------------------------------------------------------------
(* Start-up: the environments the server is started in *)

NoKeyring == [available |-> FALSE, raises |-> FALSE, passwords |-> EmptyDict]
BrokenKeyring == [available |-> TRUE, raises |-> TRUE, passwords |-> EmptyDict]
Keyring == [available |-> TRUE, raises |-> FALSE,
            passwords |-> (<< <<"askllm">>, <<"h">> >> :> <<"key-h">>)]

\* ASKLLM_CONFIG=" g,,H": g is complete, H has no key outside the keyring;
\* ASKLLM_H_NAME ends in a newline.
EnvGH ==
    (CONFIG_ENV_VAR :> <<"SP", "g", ",", ",", "H">>)
    @@ (<<"ASKLLM_", "G", "_MODEL">> :> <<"model-g">>)
    @@ (<<"ASKLLM_", "G", "_APIKEY">> :> <<"key-g">>)
    @@ (<<"ASKLLM_", "H", "_MODEL">> :> <<"model-h">>)
    @@ (<<"ASKLLM_", "H", "_NAME">> :> <<"g", "NL">>)

\* no model for g
EnvNoModel ==
    (CONFIG_ENV_VAR :> <<"g">>) @@ (<<"ASKLLM_", "G", "_APIKEY">> :> <<"key-g">>)

StartUps ==
    { [environ |-> EmptyDict, keyring |-> NoKeyring],
      [environ |-> EnvNoModel, keyring |-> Keyring],
      [environ |-> EnvGH, keyring |-> NoKeyring],
      [environ |-> EnvGH, keyring |-> BrokenKeyring],
      [environ |-> EnvGH, keyring |-> Keyring] }

----------------------------------------------------------------------------
(* State *)

Clients == {"default", "other"}
ClientOrder == <<"default", "other">>

\* the list objects of a dict of lists that nothing else refers to
CanonHeap(counts) ==
    LET present == SelectSeq(ClientOrder, LAMBDA c : c \in DOMAIN counts)
    IN  [i \in 1..Len(present) |-> counts[present[i]]]
CanonRef(counts) ==
    LET present == SelectSeq(ClientOrder, LAMBDA c : c \in DOMAIN counts)
    IN  [c \in DOMAIN counts |-> CHOOSE i \in 1..Len(present) : present[i] = c]

Threads == 1..NumThreads

IdleThread ==
    [pc |-> "idle", calls |-> 0, current_time |-> 0, filtered |-> <<>>, lref |-> 0]

NoAsk ==
    [llm |-> None, prompt |-> None, admitted |-> FALSE, raised |-> FALSE,
     value |-> None, exc |-> NoExc, calls |-> <<>>, stages |-> <<>>,
     outcome |-> NoOutcome, time |-> 0]

NoCheck == [client_id |-> "none", ok |-> FALSE, time |-> 0]

Init ==
    /\ \E s \in StartUps : llm_configs = load_llm_configurations(s.environ, s.keyring)
    /\ request_counts = EmptyDict
    /\ now = 0
    /\ last = NoAsk
    /\ lastCheck = NoCheck
    /\ heap = <<>>
    /\ ref = EmptyDict
    /\ th = [threads |-> [t \in Threads |-> IdleThread], log |-> <<>>]

----------------------------------------------------------------------------
(* Operations *)

LlmInputs ==
    { None, Str(<<>>), Str(<<"g">>), Str(<<"h">>), Str(<<"g", "NL">>), Str(<<"g", "!">>) }

PromptInputs ==
    { None, Str(<<>>), Str(<<"x01", "SP">>), Str(<<"SP", "h", "x01", "NL", "g", "TAB">>),
      Str(<<BigRun, "g">>) }

\* the clock advances by a whole window, or by a step that ends just inside it
TickSteps == {RATE_LIMIT_WINDOW - 1, RATE_LIMIT_WINDOW}

\* time passes: time.time() returns d more, up to the bound `limit`
Tick(d, limit) ==
    /\ now + d <= limit
    /\ now' = now + d
    /\ UNCHANGED <<llm_configs, request_counts, last, lastCheck, heap, ref, th>>

\* variant: the inputs are validated before the limiter is asked, so a call that
\* fails validation takes no slot
Ask_ValidateFirst(llm, prompt, outcome) ==
    LET v == validate_inputs(llm, prompt)
        adm == IF v.ok THEN check_rate_limit(request_counts, "default", now)
               ELSE [ok |-> FALSE, counts |-> request_counts]
        r == IF v.ok THEN ask(llm, prompt, adm.ok, llm_configs, outcome)
             ELSE Ret(Str(ErrorPrefix \o v.exc.msg), <<>>, <<"validate">>)
    IN  /\ request_counts' = adm.counts
        /\ heap' = CanonHeap(adm.counts)
        /\ ref' = CanonRef(adm.counts)
        /\ last' = [llm |-> llm, prompt |-> prompt, admitted |-> adm.ok,
                    raised |-> r.raised, value |-> r.value, exc |-> r.exc,
                    calls |-> r.calls, stages |-> r.stages,
                    outcome |-> outcome, time |-> now]
        /\ UNCHANGED <<llm_configs, now, lastCheck, th>>

\* one whole call of the tool: ask(llm, prompt), the provider answering with
\* outcome if the call reaches it
Ask(llm, prompt, outcome) ==
    LET adm == check_rate_limit(request_counts, "default", now)
        r == ask(llm, prompt, adm.ok, llm_configs, outcome)
    IN  /\ request_counts' = adm.counts
        /\ heap' = CanonHeap(adm.counts)
        /\ ref' = CanonRef(adm.counts)
        /\ last' = [llm |-> llm, prompt |-> prompt, admitted |-> adm.ok,
                    raised |-> r.raised, value |-> r.value, exc |-> r.exc,
                    calls |-> r.calls, stages |-> r.stages,
                    outcome |-> outcome, time |-> now]
        /\ UNCHANGED <<llm_configs, now, lastCheck, th>>

\* what the provider can answer to this call: nothing if the call does not reach it
OutcomesFor(llm, prompt) ==
    IF ask_try(llm, prompt, check_rate_limit(request_counts, "default", now).ok,
               llm_configs, NoOutcome).calls = <<>>
    THEN {NoOutcome}
    ELSE ProviderOutcomes

AskAny ==
    \E llm \in LlmInputs, prompt \in PromptInputs :
        \E outcome \in OutcomesFor(llm, prompt) : Ask(llm, prompt, outcome)

TickWindow == Tick(RATE_LIMIT_WINDOW, MaxWindows * RATE_LIMIT_WINDOW)

Next == AskAny \/ TickWindow

Spec == Init /\ [][Next]_vars

----------------------------------------------------------------------------
(* The rate limiter on its own: check_rate_limit(client_id) called directly *)

\* one whole call check_rate_limit(client_id)
Check(client_id) ==
    LET adm == check_rate_limit(request_counts, client_id, now)
    IN  /\ request_counts' = adm.counts
        /\ heap' = CanonHeap(adm.counts)
        /\ ref' = CanonRef(adm.counts)
        /\ lastCheck' = [client_id |-> client_id, ok |-> adm.ok, time |-> now]
        /\ UNCHANGED <<llm_configs, now, last, th>>

CheckAny == \E client_id \in Clients : Check(client_id)

TickAny == \E d \in TickSteps : Tick(d, MaxWindowsLimiter * RATE_LIMIT_WINDOW)

NextLimiter == CheckAny \/ TickAny

SpecLimiter == Init /\ [][NextLimiter]_vars

----------------------------------------------------------------------------
(* ask calls while check_rate_limit is also called for a second client *)

CheckOther ==
    /\ IF "other" \in DOMAIN request_counts
       THEN Len(request_counts["other"]) < MaxOtherRequests
       ELSE TRUE
    /\ Check("other")

NextTwoClients == AskAny \/ CheckOther \/ TickWindow

SpecTwoClients == Init /\ [][NextTwoClients]_vars

----------------------------------------------------------------------------
(* Concurrent ask calls: threads interleave inside check_rate_limit().      *)
(* request_counts is a dict of references to list objects; heap holds the   *)
(* list objects, ref the reference the dict holds for each client.          *)

\* the dict as the values its references point to
View(h, r) == [c \in DOMAIN r |-> h[r[c]]]

SetThread(t, rec) == [th EXCEPT !.threads[t] = rec]

\* ask is entered; line 204: current_time = time.time()
Begin(t) ==
    /\ th.threads[t].pc = "idle"
    /\ th.threads[t].calls < MaxCallsPerThread
    /\ th' = SetThread(t, [th.threads[t] EXCEPT !.pc = "test", !.current_time = now])
    /\ UNCHANGED <<llm_configs, request_counts, now, last, lastCheck, heap, ref>>

\* line 206: if client_id not in request_counts
TestClient(t) ==
    /\ th.threads[t].pc = "test"
    /\ th' = SetThread(t, [th.threads[t] EXCEPT
                 !.pc = IF "default" \in DOMAIN ref THEN "filter" ELSE "init"])
    /\ UNCHANGED <<llm_configs, request_counts, now, last, lastCheck, heap, ref>>

\* the dict refers to a new list object holding `items`
StoreNew(items) ==
    /\ heap' = Append(heap, items)
    /\ ref' = [c \in DOMAIN ref \cup {"default"} |->
                  IF c = "default" THEN Len(heap) + 1 ELSE ref[c]]
    /\ request_counts' = View(heap', ref')

\* line 207: request_counts[client_id] = []
InitClient(t) ==
    /\ th.threads[t].pc = "init"
    /\ StoreNew(<<>>)
    /\ th' = SetThread(t, [th.threads[t] EXCEPT !.pc = "filter"])
    /\ UNCHANGED <<llm_configs, now, last, lastCheck>>

\* lines 210-213, right-hand side: the comprehension builds a new list
Filter(t) ==
    /\ th.threads[t].pc = "filter"
    /\ th' = SetThread(t, [th.threads[t] EXCEPT
                 !.pc = "store",
                 !.filtered = Unexpired(heap[ref["default"]], th.threads[t].current_time)])
    /\ UNCHANGED <<llm_configs, request_counts, now, last, lastCheck, heap, ref>>

\* line 210: request_counts[client_id] = <the new list>
Store(t) ==
    /\ th.threads[t].pc = "store"
    /\ StoreNew(th.threads[t].filtered)
    /\ th' = SetThread(t, [th.threads[t] EXCEPT !.pc = "len", !.filtered = <<>>])
    /\ UNCHANGED <<llm_configs, now, last, lastCheck>>

\* lines 216-217: the limit is reached, check_rate_limit returns False and ask
\* returns the rate-limit message
Reject(t) ==
    /\ th.threads[t].pc = "len"
    /\ ~UnderLimit(heap[ref["default"]])
    /\ th' = SetThread(t, [th.threads[t] EXCEPT !.pc = "idle", !.calls = @ + 1])
    /\ UNCHANGED <<llm_configs, request_counts, now, last, lastCheck, heap, ref>>

\* line 216, the limit is not reached; line 220: request_counts[client_id] is read
Fetch(t) ==
    /\ th.threads[t].pc = "len"
    /\ UnderLimit(heap[ref["default"]])
    /\ th' = SetThread(t, [th.threads[t] EXCEPT !.pc = "append", !.lref = ref["default"]])
    /\ UNCHANGED <<llm_configs, request_counts, now, last, lastCheck, heap, ref>>

\* line 220: .append(current_time) on the list read; check_rate_limit returns True
\* and the rest of ask runs, which touches no shared state
AppendReturn(t) ==
    /\ th.threads[t].pc = "append"
    /\ heap' = [heap EXCEPT ![th.threads[t].lref] = Append(@, th.threads[t].current_time)]
    /\ request_counts' = View(heap', ref)
    /\ th' = [threads |-> [th.threads EXCEPT
                              ![t] = [@ EXCEPT !.pc = "idle", !.calls = @ + 1, !.lref = 0]],
              log |-> Append(th.log, th.threads[t].current_time)]
    /\ UNCHANGED <<llm_configs, now, last, lastCheck, ref>>

\* a window the server can have filled by earlier calls made one after the other
Preloaded == { <<>>, [i \in 1..(RATE_LIMIT_REQUESTS - 1) |-> 0] }

InitConc ==
    /\ llm_configs = load_llm_configurations(EnvGH, Keyring)
    /\ \E w \in Preloaded :
          /\ request_counts = IF w = <<>> THEN EmptyDict ELSE ("default" :> w)
          /\ th = [threads |-> [t \in Threads |-> IdleThread], log |-> w]
    /\ heap = CanonHeap(request_counts)
    /\ ref = CanonRef(request_counts)
    /\ now = 0
    /\ last = NoAsk
    /\ lastCheck = NoCheck

NextConc ==
    \/ \E t \in Threads :
          \/ Begin(t)
          \/ TestClient(t)
          \/ InitClient(t)
          \/ Filter(t)
          \/ Store(t)
          \/ Reject(t)
          \/ Fetch(t)
          \/ AppendReturn(t)
    \/ TickWindow

SpecConc == InitConc /\ [][NextConc]_vars

----------------------------------------------------------------------------
(* Properties *)

\* the window the dict holds for a client, empty if it holds none
Win(c) == IF c \in DOMAIN request_counts THEN request_counts[c] ELSE <<>>

\* how many of the timestamps are less than a window old at time t
Fresh(times, t) ==
    Cardinality({i \in 1..Len(times) : t - times[i] < RATE_LIMIT_WINDOW})

CountIn(times, v) == Cardinality({i \in 1..Len(times) : times[i] = v})

\* `last` describes a call of ask
Called == last.stages # <<>>

\* this step is a whole call of ask
AskStep == Ask(last'.llm, last'.prompt, last'.outcome)

\* this step is a whole direct call check_rate_limit(c)
CheckStep(c) == lastCheck'.client_id = c /\ Check(c)

\* the provider was called and raised
ProviderRaised == Called /\ last.outcome.kind = "raise"

\* the responses that carry a non-empty content text where it belongs
WellFormed == { Response(List(<<Message(c)>>)) : c \in GoodContents }

C2_AsClaimed ==
    [][\A c \in Clients : CheckStep(c) =>
          LET kept == SelectSeq(Win(c), LAMBDA r : now - r <= RATE_LIMIT_WINDOW) IN
          /\ lastCheck'.ok = (Len(kept) < RATE_LIMIT_REQUESTS)
          /\ request_counts'[c] = IF lastCheck'.ok THEN Append(kept, now) ELSE kept]_vars

\* C2, amended: a call is refused exactly when RATE_LIMIT_REQUESTS recorded
\* timestamps are less than a window old; timestamps a whole window old or
\* older are dropped, in order, the younger ones are kept, and the capacity
\* given back is the number of timestamps dropped.
C2_Window ==
    [][\A c \in Clients : CheckStep(c) =>
          LET old == Win(c)
              kept == SelectSeq(old, LAMBDA r : now - r < RATE_LIMIT_WINDOW)
              expired == Cardinality({i \in 1..Len(old) : now - old[i] >= RATE_LIMIT_WINDOW})
          IN  /\ lastCheck'.ok = (Len(old) - expired < RATE_LIMIT_REQUESTS)
              /\ request_counts'[c] = IF lastCheck'.ok THEN Append(kept, now) ELSE kept
              /\ Len(request_counts'[c]) = Len(old) - expired + (IF lastCheck'.ok THEN 1 ELSE 0)
              /\ \A d \in DOMAIN request_counts \ {c} : request_counts'[d] = request_counts[d]]_vars

\* a full window lost its oldest timestamps only, and the call was admitted into
\* the capacity they gave back
C2_Witness ==
    \E c \in Clients :
        /\ lastCheck.client_id = c /\ lastCheck.ok
        /\ lastCheck.time = 2 * (RATE_LIMIT_WINDOW - 1)
        /\ Len(Win(c)) = RATE_LIMIT_REQUESTS
        /\ Win(c)[1] = RATE_LIMIT_WINDOW - 1
        /\ Win(c)[RATE_LIMIT_REQUESTS] = lastCheck.time

AllIdle == \A t \in Threads : th.threads[t].pc = "idle"

\* C3: with ask calls interleaving inside check_rate_limit, every admitted
\* timestamp still inside the window is recorded exactly once, and no more than
\* RATE_LIMIT_REQUESTS calls are admitted within one window.
C3_AsClaimed ==
    AllIdle =>
        /\ \A i \in 1..Len(th.log) :
              now - th.log[i] < RATE_LIMIT_WINDOW =>
                  CountIn(Win("default"), th.log[i]) = CountIn(th.log, th.log[i])
        /\ Fresh(th.log, now) <= RATE_LIMIT_REQUESTS

\* the prompt passes the validation of ask
PromptPasses(prompt) ==
    /\ IsStr(prompt)
    /\ prompt.s # <<>>
    /\ PyLen(prompt.s) <= MAX_PROMPT_LENGTH
    /\ sanitize_prompt(prompt.s) # <<>>

\* the name is one or more characters, all of [A-Za-z0-9_-]
NameAllSafe(llm) ==
    /\ IsStr(llm)
    /\ llm.s # <<>>
    /\ \A i \in 1..Len(llm.s) : llm.s[i] \in SafeChars

\* C4: the provider is called only by a call that was admitted, whose name is
\* one or more characters of [A-Za-z0-9_-] and a key of the registry and whose
\* prompt passed validation; and it is called at most once by one ask call.
C4_AsClaimed ==
    /\ Len(last.calls) <= 1
    /\ last.calls # <<>> =>
          /\ last.admitted
          /\ NameAllSafe(last.llm)
          /\ PromptPasses(last.prompt)
          /\ last.llm.s \in DOMAIN llm_configs

C6_TimeoutAndConnection ==
    ProviderRaised =>
        /\ IsInstance(last.outcome.exc, "TimeoutError") =>
              /\ last.value = Str(<<"Error: ", "LLM request timed out">>)
              /\ ~Contains(last.value.s, last.outcome.exc.msg)
        /\ IsInstance(last.outcome.exc, "ConnectionError") =>
              /\ last.value = Str(<<"Error: ", "Unable to connect to LLM service">>)
              /\ ~Contains(last.value.s, last.outcome.exc.msg)

\* the provider timed out and the fixed message was returned
C6_Witness ==
    /\ ProviderRaised
    /\ last.outcome.exc.cls = "TimeoutError"
    /\ last.value = Str(<<"Error: ", "LLM request timed out">>)

\* C7: a ValueError of the provider gives "Error: Invalid request parameters",
\* a failure that is none of connectivity, timeout and ValueError gives
\* "Error: Unexpected error occurred", and no result contains the text of the
\* provider's exception.
C7_AsClaimed ==
    ProviderRaised =>
        /\ IsInstance(last.outcome.exc, "ValueError") =>
              last.value = Str(<<"Error: ", "Invalid request parameters">>)
        /\ (~IsInstance(last.outcome.exc, "ValueError")
            /\ ~IsInstance(last.outcome.exc, "TimeoutError")
            /\ ~IsInstance(last.outcome.exc, "ConnectionError")) =>
              last.value = Str(<<"Error: ", "Unexpected error occurred">>)
        /\ ~Contains(last.value.s, last.outcome.exc.msg)

\* C8: a response that is malformed or whose content is empty gives one of the
\* two response-error messages, never the unexpected-error message.
C8_AsClaimed ==
    (Called /\ last.outcome.kind = "return" /\ last.outcome.response \notin WellFormed) =>
        /\ last.value \in { Str(<<"Error: ", "Invalid response structure from LLM">>),
                            Str(<<"Error: ", "Empty response content">>) }
        /\ last.value # Str(<<"Error: ", "Unexpected error occurred">>)

\* C9: an ask call the limiter refuses leaves the default window holding exactly
\* the unexpired timestamps it held, records nothing, leaves every other
\* client's window alone, and returns the rate-limit message at once: no
\* validation, no registry lookup, no provider call.
C9_RejectFrame ==
    [][(AskStep /\ ~last'.admitted) =>
          /\ request_counts'["default"] =
                SelectSeq(Win("default"), LAMBDA r : now - r < RATE_LIMIT_WINDOW)
          /\ DOMAIN request_counts' = DOMAIN request_counts \cup {"default"}
          /\ \A c \in DOMAIN request_counts \ {"default"} :
                request_counts'[c] = request_counts[c]
          /\ last'.value = Str(<<"Error: ", "Rate limit exceeded. Please try again later.">>)
          /\ ~last'.raised
          /\ last'.stages = <<"rate_limit">>
          /\ last'.calls = <<>>]_vars

\* a valid call for a configured name was refused while a second client had a
\* window of its own
C9_Witness ==
    /\ Called /\ ~last.admitted
    /\ last.llm = Str(<<"g">>) /\ <<"g">> \in DOMAIN llm_configs
    /\ PromptPasses(last.prompt)
    /\ Len(Win("default")) = RATE_LIMIT_REQUESTS
    /\ Len(Win("other")) > 0

\* C10: every ask call the limiter does not refuse takes exactly one slot of the
\* default window, whatever the call does afterwards; and once
\* RATE_LIMIT_REQUESTS calls hold the slots of the window, the next call gets
\* the rate-limit message whatever its inputs.
C10_SlotPerCall ==
    [][AskStep =>
          LET before == Fresh(Win("default"), now) IN
          IF before < RATE_LIMIT_REQUESTS
          THEN /\ last'.admitted
               /\ Fresh(request_counts'["default"], now) = before + 1
               /\ Len(request_counts'["default"]) = before + 1
          ELSE /\ ~last'.admitted
               /\ last'.value =
                     Str(<<"Error: ", "Rate limit exceeded. Please try again later.">>)
               /\ Fresh(request_counts'["default"], now) = before]_vars

\* the tenth slot of the window was taken by a call that failed validation
C10_Witness ==
    /\ Called /\ last.admitted
    /\ last.stages = <<"rate_limit", "validate">>
    /\ Len(Win("default")) = RATE_LIMIT_REQUESTS
    /\ Fresh(Win("default"), now) = RATE_LIMIT_REQUESTS

====
